---- MODULE Spec2Model ----
(***************************************************************************)
(* The PDF viewer component (PDFViewer in WorkerPDFViewer.js) as a state   *)
(* machine: the React state of the component, the asynchronous loadPDF and *)
(* renderPage invocations in flight, the pending timers and the DOM the    *)
(* component builds inside its container.                                  *)
(*                                                                         *)
(* One action is one event-loop task: an event handler, a prop change or   *)
(* the continuation of an await, together with the React re-render and the *)
(* effects the state changes of that task trigger.                         *)
(*                                                                         *)
(* Numbers.  scale is a JavaScript float; it is kept in fixed point, in    *)
(* units of 1/ScaleUnit, products and quotients truncated.  Normalised     *)
(* coordinates (0..1) are kept in units of 1/Grid, pixel coordinates in    *)
(* units of 1/Grid pixel, so that the coordinate transforms are exact.     *)
(***************************************************************************)
EXTENDS Integers, Sequences, FiniteSets, TLC

\* ------------------------------------------------------------------ bounds
MaxLoads == 2       \* loadPDF invocations in flight at once
MaxRenders == 2     \* renderPage invocations alive at once (in flight or shown)
MaxTimers == 1      \* pending debounce timers at once
MaxPages == 3       \* pages of the longest document
MaxFiles == 3       \* files of an upload request
Grid == 10          \* resolution of normalised coordinates
ScaleUnit == 10     \* resolution of scale
PageW == 4          \* width of a page at scale 1, in pixels
PageH == 6          \* height of a page at scale 1, in pixels

\* --------------------------------------------------- JavaScript arithmetic
\* parseInt of something that is not a number, and everything computed from it
NaN == -1000

IsNaN(a) == a = NaN

\* a % n of JavaScript: the remainder takes the sign of the dividend
JSRem(a, n) == IF a >= 0 THEN a % n ELSE -((-a) % n)

JSAdd(a, b) == IF IsNaN(a) \/ IsNaN(b) THEN NaN ELSE a + b

MathMin(a, b) == IF IsNaN(a) \/ IsNaN(b) THEN NaN ELSE IF a < b THEN a ELSE b

MathMax(a, b) == IF IsNaN(a) \/ IsNaN(b) THEN NaN ELSE IF a > b THEN a ELSE b

\* a === b on numbers: NaN equals nothing
StrictEq(a, b) == ~IsNaN(a) /\ ~IsNaN(b) /\ a = b

\* parseInt on the page tags the callers supply
parseInt(s) ==
    CASE s = "0" -> 0
      [] s = "1" -> 1
      [] s = "2" -> 2
      [] s = "3" -> 3
      [] s = "4" -> 4
      [] s = "5" -> 5
      [] OTHER -> NaN

\* (rotation % 360 + 360) % 360
normalizedAngle(r) == JSRem(JSRem(r, 360) + 360, 360)

\* ------------------------------------------------------------------ inputs
\* the document URLs the caller passes; "" is a missing (falsy) fileUrl
Urls == {"", "a.pdf", "b.pdf"}

\* the page count of the document behind a URL
PagesOf(u) == IF u = "a.pdf" THEN MaxPages ELSE 1

Pt(a, b) == [x |-> a, y |-> b]

Square == <<Pt(1, 1), Pt(3, 1), Pt(3, 3), Pt(1, 3)>>

Triangle == <<Pt(5, 5), Pt(9, 5), Pt(5, 9)>>

Group(p, k, vs) == [page |-> p, key |-> k, vertices |-> vs]

\* the verticesGroups values the caller supplies
VGChoices ==
    { << >>,
      << Group("0", "A", Square) >>,
      << Group("all", "B", Triangle), Group("1", "C", Square) >> }

\* the verticesGroups values drawn on the overlay: those, and one group of
\* three vertices
DrawChoices == VGChoices \cup { << Group("0", "D", Triangle) >> }

\* ------------------------------------------------------------------- state
VARIABLES
    fileUrl,         \* prop fileUrl
    verticesGroups,  \* prop verticesGroups
    pdf,             \* useState: the document handle, NoPdf for null
    numPages,        \* useState
    currentPage,     \* useState
    rotation,        \* useState
    scale,           \* useZoom state, in units of 1/ScaleUnit
    loading,         \* useState
    showError,       \* useState {open, message}
    loads,           \* loadPDF invocations: slot -> [pc, url]
    timers,          \* pending debounce timers of the verticesGroups effect, oldest first
    renders,         \* renderPage invocations and the page element each created
    container,       \* children of pdfViewerRef.current: render slots, in document order
    latest,          \* the slot of the most recent renderPage call, 0 before the first
    lastOp,          \* the page handler that produced this state, if one did
    verticesArray,   \* prop verticesArray and the state vertices that follows it
    scrolled,        \* scrollTo calls on scrollableRef.current of the last drawVertices call
    stored,          \* upload request: the MIME types of the files accepted so far
    uploadError      \* upload request: the error the file filter ended it with, "" for none

vars == <<fileUrl, verticesGroups, pdf, numPages, currentPage, rotation, scale,
          loading, showError, loads, timers, renders, container, latest, lastOp,
          verticesArray, scrolled, stored, uploadError>>

\* the request state of the upload route, which the viewer never touches
uploadVars == <<stored, uploadError>>

NoPdf == [url |-> "", numPages |-> 0]

defaultErrorValue == [open |-> FALSE, message |-> ""]

IdleLoad == [pc |-> "idle", url |-> ""]

MAX_SCALE == 5 * ScaleUnit

MIN_SCALE == ScaleUnit \div 2

InitialScale == (3 * ScaleUnit) \div 2

DefaultCanvasW == 300

DefaultCanvasH == 150

\* the verticesArray the viewer is mounted with
HoverSet == << Group("0", "A", Square), Group("all", "B", Triangle) >>

\* the verticesArray values the caller supplies
HoverChoices == { << >>, HoverSet }

\* where the pointer can be, as a fraction (in 1/Grid) of the overlay's rectangle
MousePoints == {Pt(2, 2), Pt(6, 6), Pt(2, 8)}

\* ---------------------------------------------------------------- geometry
\* page.getViewport({scale, rotation}): the page's pixel size, sides swapped
\* when the page lies on its side
Viewport(sc, rot) ==
    LET pw == (PageW * sc) \div ScaleUnit
        ph == (PageH * sc) \div ScaleUnit
    IN  IF normalizedAngle(rot) \in {90, 270}
        THEN [w |-> ph, h |-> pw]
        ELSE [w |-> pw, h |-> ph]

\* the switch of drawVertices: a normalised vertex to overlay pixels
adjusted(vertex, w, h, rotationAngle) ==
    LET a == normalizedAngle(rotationAngle)
    IN  CASE a = 90  -> Pt((Grid - vertex.y) * w, vertex.x * h)
          [] a = 180 -> Pt((Grid - vertex.x) * w, (Grid - vertex.y) * h)
          [] a = 270 -> Pt(vertex.y * w, (Grid - vertex.x) * h)
          [] OTHER   -> Pt(vertex.x * w, vertex.y * h)

\* the pointer switch with the cases of 90 and 270 degrees exchanged
normalizedPointSwapped(mouse, rw, rh, rot) ==
    LET a == normalizedAngle(rot)
    IN  CASE a = 270 -> Pt(mouse.y \div rh, (rw * Grid - mouse.x) \div rw)
          [] a = 180 -> Pt((rw * Grid - mouse.x) \div rw, (rh * Grid - mouse.y) \div rh)
          [] a = 90  -> Pt((rh * Grid - mouse.y) \div rh, mouse.x \div rw)
          [] OTHER   -> Pt(mouse.x \div rw, mouse.y \div rh)

\* the switch of handleOverlayMouseMove: a pointer position inside the
\* overlay's rectangle (rw x rh pixels) to a normalised point
normalizedPoint(mouse, rw, rh, rot) ==
    LET a == normalizedAngle(rot)
    IN  CASE a = 90  -> Pt(mouse.y \div rh, (rw * Grid - mouse.x) \div rw)
          [] a = 180 -> Pt((rw * Grid - mouse.x) \div rw, (rh * Grid - mouse.y) \div rh)
          [] a = 270 -> Pt((rh * Grid - mouse.y) \div rh, mouse.x \div rw)
          [] OTHER   -> Pt(mouse.x \div rw, mouse.y \div rh)

\* isPointInPolygon of utils/utils: ray casting, an edge at a time
Crosses(point, vi, vj) ==
    /\ (vi.y > point.y) # (vj.y > point.y)
    /\ IF vj.y > vi.y
       THEN (point.x - vi.x) * (vj.y - vi.y) < (vj.x - vi.x) * (point.y - vi.y)
       ELSE (point.x - vi.x) * (vj.y - vi.y) > (vj.x - vi.x) * (point.y - vi.y)

isPointInPolygon(point, polygon) ==
    LET n == Len(polygon)
        prev(i) == IF i = 1 THEN n ELSE i - 1
        crossings == {i \in 1..n : Crosses(point, polygon[i], polygon[prev(i)])}
    IN  n >= 3 /\ Cardinality(crossings) % 2 = 1

\* ------------------------------------------------------------------ overlay
\* drawVertices without its test of the page
DrawnAll(vertices, page) == vertices

\* the groups drawVertices draws: tagged "all", or of the page shown
Drawn(vertices, page) ==
    SelectSeq(vertices,
              LAMBDA v : v.page = "all" \/ StrictEq(parseInt(v.page), JSAdd(page, -1)))

\* what drawVertices leaves on a cleared overlay of w x h pixels: one closed
\* path a drawn group, with the label when a text is given
drawVertices(w, h, vertices, rotationAngle, text, page) ==
    LET shown == Drawn(vertices, page)
    IN  [k \in 1..Len(shown) |->
            [key   |-> shown[k].key,
             label |-> IF Len(shown[k].vertices) > 0 THEN text ELSE "",
             path  |-> [i \in 1..Len(shown[k].vertices) |->
                          adjusted(shown[k].vertices[i], w, h, rotationAngle)]]]

\* scrollToVertex(x, y, scale, container, margin=50): the scrollTo it calls
margin == 50 * Grid

scrollToVertex(x, y) ==
    [left |-> MathMax(x - margin, 0), top |-> MathMax(y - margin, 0)]

\* the scrollTo calls of one drawVertices call, in order: one a vertex of a
\* drawn group, when one group is supplied and scrollToView is set
drawVerticesScrolls(w, h, verts, rotationAngle, scrollToView, page) ==
    LET shown == Drawn(verts, page)
    IN  IF Len(verts) = 1 /\ scrollToView /\ Len(shown) = 1
        THEN [i \in 1..Len(shown[1].vertices) |->
                 scrollToVertex(adjusted(shown[1].vertices[i], w, h, rotationAngle).x,
                                adjusted(shown[1].vertices[i], w, h, rotationAngle).y)]
        ELSE << >>

\* --------------------------------------------------------------- renderPage
\* a slot of renders: pc is where the renderPage invocation stands; ok, page,
\* sc, rot are what it was called with (ok: the document has the page), cause
\* is what made the render effect run ("pdf", "control" for a change of page,
\* scale or rotation by a handler, "verticesGroups" for the page switch of
\* the annotation effect); the rest is the page element it created: the
\* size of its canvases, the listener of its text layer, the page on its
\* main canvas, its text layer, the regions on its overlay canvas; hover is
\* the state vertices of the render that called renderPage, which the
\* listener tests
IdleRender ==
    [pc |-> "idle", ok |-> FALSE, page |-> 0, sc |-> 0, rot |-> 0, cause |-> "",
     w |-> 0, h |-> 0, listener |-> FALSE, bitmap |-> 0, text |-> FALSE,
     overlay |-> << >>, hover |-> << >>]

\* a page element removed from the container is out of the document: nothing
\* shows it and no event reaches it, only the invocation's progress is left
Detached(r) == [IdleRender EXCEPT !.pc = r.pc, !.ok = r.ok]

InFlight(r) == r.pc \in {"getPage", "render", "getTextContent"}

InContainer(i) == \E k \in 1..Len(container) : container[k] = i

SetMin(S) == CHOOSE m \in S : \A n \in S : m <= n

\* renderPage up to its first await: the container is emptied, a new page
\* element (canvas, overlay canvas, text layer) is created and appended
FreeRenders == {i \in 1..MaxRenders : ~InFlight(renders[i]) /\ ~InContainer(i)}

NewRender(p, cp, sc, rot, why) ==
    [pc |-> "getPage", ok |-> cp \in 1..p.numPages, page |-> cp, sc |-> sc,
     rot |-> rot, cause |-> why, w |-> DefaultCanvasW, h |-> DefaultCanvasH,
     listener |-> FALSE, bitmap |-> 0, text |-> FALSE, overlay |-> << >>,
     hover |-> verticesArray]

\* renderPage that appends its page element without emptying the container
renderPageAppending(p, cp, sc, rot, why) ==
    /\ FreeRenders # {}
    /\ renders' = [renders EXCEPT ![SetMin(FreeRenders)] = NewRender(p, cp, sc, rot, why)]
    /\ container' = Append(container, SetMin(FreeRenders))
    /\ latest' = SetMin(FreeRenders)

renderPage(p, cp, sc, rot, why) ==
    LET kept == [i \in 1..MaxRenders |->
                    IF InFlight(renders[i]) THEN Detached(renders[i]) ELSE IdleRender]
        free == {i \in 1..MaxRenders : kept[i].pc = "idle"}
    IN  /\ free # {}
        /\ renders' = [kept EXCEPT ![SetMin(free)] = NewRender(p, cp, sc, rot, why)]
        /\ container' = << SetMin(free) >>
        /\ latest' = SetMin(free)

\* useEffect [pdf, scale, rotation, currentPage]
RenderEffect(p, fresh, cp, sc, rot, why) ==
    IF p # NoPdf /\ (fresh \/ <<cp, sc, rot>> # <<currentPage, scale, rotation>>)
    THEN renderPage(p, cp, sc, rot, why)
    ELSE UNCHANGED <<renders, container, latest>>

\* an invocation that ended while its element is not shown leaves nothing
Settle(i, r) == IF InContainer(i) THEN r ELSE IdleRender

\* an invocation writes to the element it created, shown or not
Written(i, r) == IF InContainer(i) THEN r ELSE Detached(r)

\* lastOp tells nextPage and prevPage, with the page each was called on, and
\* refreshPDF from every other task
Traced == {"nextPage", "prevPage", "refreshPDF"}

Op(n, a) == IF n \in Traced THEN [name |-> n, arg |-> a] ELSE [name |-> "", arg |-> 0]

\* ----------------------------------------------------------------- loadPDF
FreeLoads == {i \in 1..MaxLoads : loads[i].pc = "idle"}

\* loadPDF up to its first await; without a fileUrl it returns at once and
\* only the timer of .finally is left
loadPDF(u) ==
    IF u = "" THEN [pc |-> "timeout", url |-> u] ELSE [pc |-> "getPdfBlob", url |-> u]

\* setLoading(true); loadPDF().finally(...)
StartLoad(u) ==
    /\ FreeLoads # {}
    /\ loads' = [loads EXCEPT ![SetMin(FreeLoads)] = loadPDF(u)]
    /\ loading' = TRUE

\* the target page of the verticesGroups effect
TargetPage(groups) ==
    IF Len(groups) > 0 THEN JSAdd(parseInt(groups[1].page), 1) ELSE 1

DebounceTimer(groups, page, rot) == [groups |-> groups, page |-> page, rot |-> rot]

\* the state once the component is mounted and its effects have run: the
\* load of fileUrl is started, the verticesGroups effect has set the page
\* and left its timer
Init ==
    /\ fileUrl \in Urls
    /\ verticesGroups \in VGChoices
    /\ pdf = NoPdf
    /\ numPages = 0
    /\ rotation = 0
    /\ scale = InitialScale
    /\ showError = defaultErrorValue
    /\ loading = TRUE
    /\ loads = [i \in 1..MaxLoads |-> IF i = 1 THEN loadPDF(fileUrl) ELSE IdleLoad]
    /\ currentPage = TargetPage(verticesGroups)
    /\ timers = << DebounceTimer(verticesGroups, TargetPage(verticesGroups), 0) >>
    /\ renders = [i \in 1..MaxRenders |-> IdleRender]
    /\ container = << >>
    /\ latest = 0
    /\ lastOp = Op("mount", 0)
    /\ verticesArray = HoverSet
    /\ scrolled = << >>
    /\ stored = << >>
    /\ uploadError = ""

\* the caller passes another fileUrl: loadPDF changes, useEffect [loadPDF] runs
setFileUrl(u) ==
    /\ u # fileUrl
    /\ fileUrl' = u
    /\ StartLoad(u)
    /\ lastOp' = Op("setFileUrl", 0)
    /\ UNCHANGED <<verticesArray, scrolled, uploadVars, verticesGroups, pdf,
                   numPages, currentPage, rotation, scale, showError,
                   timers, renders, container, latest>>

\* a Reload that leaves the error panel open
refreshPDFKeepingError ==
    /\ showError.open
    /\ StartLoad(fileUrl)
    /\ lastOp' = Op("refreshPDF", 0)
    /\ UNCHANGED <<verticesArray, scrolled, uploadVars, fileUrl, verticesGroups,
                   pdf, numPages, currentPage, rotation, scale, showError,
                   timers, renders, container, latest>>

\* the Reload button of the error panel
refreshPDF ==
    /\ showError.open
    /\ showError' = defaultErrorValue
    /\ StartLoad(fileUrl)
    /\ lastOp' = Op("refreshPDF", 0)
    /\ UNCHANGED <<verticesArray, scrolled, uploadVars, fileUrl, verticesGroups,
                   pdf, numPages, currentPage, rotation, scale, timers,
                   renders, container, latest>>

\* await getPdfBlob(fileUrl) and blob.arrayBuffer() resolve
getPdfBlobResolved(i) ==
    /\ loads[i].pc = "getPdfBlob"
    /\ loads' = [loads EXCEPT ![i].pc = "getDocument"]
    /\ lastOp' = Op("getPdfBlobResolved", i)
    /\ UNCHANGED <<verticesArray, scrolled, uploadVars, fileUrl, verticesGroups,
                   pdf, numPages, currentPage, rotation, scale, loading,
                   showError, timers, renders, container, latest>>

\* a catch block that also forgets the page count
LoadFailedResetting(i) ==
    /\ showError' = [open |-> TRUE, message |-> "Cannot load pdf file!"]
    /\ numPages' = 0
    /\ loads' = [loads EXCEPT ![i].pc = "timeout"]
    /\ UNCHANGED <<verticesArray, scrolled, uploadVars, fileUrl, verticesGroups,
                   pdf, currentPage, rotation, scale, loading, timers,
                   renders, container, latest>>

\* the catch block of loadPDF, then .finally leaves its timer
LoadFailed(i) ==
    /\ showError' = [open |-> TRUE, message |-> "Cannot load pdf file!"]
    /\ loads' = [loads EXCEPT ![i].pc = "timeout"]
    /\ UNCHANGED <<verticesArray, scrolled, uploadVars, fileUrl, verticesGroups,
                   pdf, numPages, currentPage, rotation, scale, loading,
                   timers, renders, container, latest>>

getPdfBlobRejected(i) ==
    /\ loads[i].pc = "getPdfBlob"
    /\ LoadFailed(i)
    /\ lastOp' = Op("getPdfBlobRejected", i)

getDocumentRejected(i) ==
    /\ loads[i].pc = "getDocument"
    /\ LoadFailed(i)
    /\ lastOp' = Op("getDocumentRejected", i)

\* await loadingTask.promise resolves: setPdf, setNumPages; the new handle
\* makes the render effect run
getDocumentResolved(i) ==
    /\ loads[i].pc = "getDocument"
    /\ pdf' = [url |-> loads[i].url, numPages |-> PagesOf(loads[i].url)]
    /\ numPages' = PagesOf(loads[i].url)
    /\ loads' = [loads EXCEPT ![i].pc = "timeout"]
    /\ RenderEffect(pdf', TRUE, currentPage, scale, rotation, "pdf")
    /\ lastOp' = Op("getDocumentResolved", i)
    /\ UNCHANGED <<verticesArray, scrolled, uploadVars, fileUrl, verticesGroups,
                   currentPage, rotation, scale, loading, showError, timers>>

\* setTimeout(() => setLoading(false), 0) of .finally
loadingTimeout(i) ==
    /\ loads[i].pc = "timeout"
    /\ loading' = FALSE
    /\ loads' = [loads EXCEPT ![i] = IdleLoad]
    /\ lastOp' = Op("loadingTimeout", i)
    /\ UNCHANGED <<verticesArray, scrolled, uploadVars, fileUrl, verticesGroups,
                   pdf, numPages, currentPage, rotation, scale, showError,
                   timers, renders, container, latest>>

\* ---------------------------------------------------------------- controls
\* a handler that sets page, scale or rotation, then the render effect
Control(cp, sc, rot, name, arg) ==
    /\ currentPage' = cp
    /\ scale' = sc
    /\ rotation' = rot
    /\ RenderEffect(pdf, FALSE, cp, sc, rot, "control")
    /\ lastOp' = Op(name, arg)
    /\ UNCHANGED <<verticesArray, scrolled, uploadVars, fileUrl, verticesGroups,
                   pdf, numPages, loading, showError, loads, timers>>

\* prevScale * 1.2 and prevScale / 1.2
Times12(s) == (s * 12) \div 10

Over12(s) == (s * 10) \div 12

\* zoomIn without its clamp
zoomInUnclamped(prevScale) == Times12(prevScale)

zoomInScale(prevScale) == MathMin(Times12(prevScale), MAX_SCALE)

zoomOutScale(prevScale) == MathMax(Over12(prevScale), MIN_SCALE)

zoomIn == Control(currentPage, zoomInScale(scale), rotation, "zoomIn", 0)

zoomOut == Control(currentPage, zoomOutScale(scale), rotation, "zoomOut", 0)

\* rotateLeft without its remainder
rotateLeftUnbounded(prevRotation) == prevRotation - 90

\* rotateLeft with a remainder that is not a full turn
rotateLeftShortTurn(prevRotation) == JSRem(prevRotation - 90, 270)

rotateLeftValue(prevRotation) == JSRem(prevRotation - 90, 360)

rotateRightValue(prevRotation) == JSRem(prevRotation + 90, 360)

rotateLeft == Control(currentPage, scale, rotateLeftValue(rotation), "rotateLeft", 0)

rotateRight == Control(currentPage, scale, rotateRightValue(rotation), "rotateRight", 0)

\* nextPage without its clamp
nextPageUnclamped(prevPage, n) == JSAdd(prevPage, 1)

nextPageValue(prevPage, n) == MathMin(JSAdd(prevPage, 1), n)

prevPageValue(prevPage) == MathMax(JSAdd(prevPage, -1), 1)

\* the page nextPage or prevPage was called on is recorded with the task
nextPage ==
    Control(nextPageValue(currentPage, numPages), scale, rotation, "nextPage",
            currentPage)

prevPage ==
    Control(prevPageValue(currentPage), scale, rotation, "prevPage", currentPage)

\* a click on the thumbnail of page num (PageItem onClick)
selectPage(num) ==
    /\ num \in 1..numPages
    /\ Control(num, scale, rotation, "selectPage", 0)

\* ------------------------------------------------------------ verticesGroups
\* the caller passes another verticesGroups: useEffect [verticesGroups] sets
\* the page and leaves its timer; the page change makes the render effect run
setVerticesGroups(groups) ==
    /\ Len(timers) < MaxTimers
    /\ verticesGroups' = groups
    /\ currentPage' = TargetPage(groups)
    /\ timers' = Append(timers, DebounceTimer(groups, TargetPage(groups), rotation))
    /\ RenderEffect(pdf, FALSE, currentPage', scale, rotation, "verticesGroups")
    /\ lastOp' = Op("setVerticesGroups", 0)
    /\ UNCHANGED <<verticesArray, scrolled, uploadVars, fileUrl, pdf, numPages,
                   rotation, scale, loading, showError, loads>>

\* container.querySelector('canvas:nth-of-type(2)'): the overlay canvas of
\* the first page element of the container, 0 when there is none
OverlayCanvas == IF Len(container) > 0 THEN container[1] ELSE 0

\* the timer of the verticesGroups effect fires: updateVertices draws the
\* groups on the overlay canvas the container holds now
updateVertices ==
    /\ timers # << >>
    /\ timers' = Tail(timers)
    /\ IF OverlayCanvas # 0
       THEN /\ renders' = [renders EXCEPT ![OverlayCanvas].overlay =
                              drawVertices(renders[OverlayCanvas].w,
                                           renders[OverlayCanvas].h,
                                           Head(timers).groups, Head(timers).rot, "",
                                           Head(timers).page)]
            /\ scrolled' = drawVerticesScrolls(renders[OverlayCanvas].w,
                                               renders[OverlayCanvas].h,
                                               Head(timers).groups, Head(timers).rot,
                                               TRUE, Head(timers).page)
       ELSE UNCHANGED <<renders, scrolled>>
    /\ lastOp' = Op("updateVertices", 0)
    /\ UNCHANGED <<verticesArray, uploadVars, fileUrl, verticesGroups,
                   pdf, numPages, currentPage, rotation, scale, loading,
                   showError, loads, container, latest>>

\* ------------------------------------------------- renderPage, after awaits
RenderStep(i, r, name) ==
    /\ renders' = [renders EXCEPT ![i] = r]
    /\ lastOp' = Op(name, i)
    /\ UNCHANGED <<verticesArray, scrolled, uploadVars, fileUrl, verticesGroups,
                   pdf, numPages, currentPage, rotation, scale, loading,
                   showError, loads, timers, container, latest>>

\* await pdf.getPage(currentPage) resolves: both canvases take the size of
\* the viewport, which empties them, and the text layer gets its listener
getPageResolved(i) ==
    /\ renders[i].pc = "getPage"
    /\ renders[i].ok
    /\ RenderStep(i, Written(i, [renders[i] EXCEPT
                        !.pc = "render",
                        !.w = Viewport(renders[i].sc, renders[i].rot).w,
                        !.h = Viewport(renders[i].sc, renders[i].rot).h,
                        !.overlay = << >>,
                        !.listener = TRUE]),
                  "getPageResolved")

\* pdf.getPage rejects a page the document does not have: renderPage ends
\* there, leaving the element as it is
getPageRejected(i) ==
    /\ renders[i].pc = "getPage"
    /\ ~renders[i].ok
    /\ RenderStep(i, Settle(i, [renders[i] EXCEPT !.pc = "failed"]), "getPageRejected")

\* await page.render(...).promise resolves: the page is on the main canvas
pageRenderResolved(i) ==
    /\ renders[i].pc = "render"
    /\ RenderStep(i, Written(i, [renders[i] EXCEPT !.pc = "getTextContent",
                                                   !.bitmap = renders[i].page]),
                  "pageRenderResolved")

\* await page.getTextContent() resolves, renderTextLayer fills the text layer
getTextContentResolved(i) ==
    /\ renders[i].pc = "getTextContent"
    /\ RenderStep(i, Settle(i, [renders[i] EXCEPT !.pc = "done", !.text = TRUE]),
                  "getTextContentResolved")

\* ------------------------------------------------------------- pointer move
\* the groups of the hover set that contain the normalised pointer position
verticesToShow(vs, point) ==
    SelectSeq(vs, LAMBDA v : isPointInPolygon(point, v.vertices))

\* mousemove on the text layer of the page element shown; the listener is
\* the handleOverlayMouseMove of the render that called renderPage, with its
\* vertices, rotation and currentPage; at is the pointer's place in the
\* overlay's rectangle, which has the size of the canvas
handleOverlayMouseMove(at) ==
    /\ OverlayCanvas # 0
    /\ renders[OverlayCanvas].listener
    /\ LET el == renders[OverlayCanvas]
           mouse == Pt(at.x * el.w, at.y * el.h)
           toShow == verticesToShow(el.hover,
                                    normalizedPoint(mouse, el.w, el.h, el.rot))
       IN  IF Len(el.hover) > 0 /\ Len(toShow) > 0
           THEN /\ renders' = [renders EXCEPT ![OverlayCanvas].overlay =
                                  drawVertices(el.w, el.h, toShow, el.rot,
                                               toShow[1].key, el.page)]
                /\ scrolled' = drawVerticesScrolls(el.w, el.h, toShow, el.rot, FALSE,
                                                   el.page)
           ELSE UNCHANGED <<renders, scrolled>>
    /\ lastOp' = Op("handleOverlayMouseMove", 0)
    /\ UNCHANGED <<verticesArray, uploadVars, fileUrl, verticesGroups,
                   pdf, numPages, currentPage, rotation, scale, loading,
                   showError, loads, timers, container, latest>>

\* the caller passes another verticesArray: useEffect [verticesArray] sets
\* the state vertices; no dependency of the render effect changes
setVerticesArray(vs) ==
    /\ vs # verticesArray
    /\ verticesArray' = vs
    /\ lastOp' = Op("setVerticesArray", 0)
    /\ UNCHANGED <<scrolled, uploadVars, fileUrl, verticesGroups, pdf, numPages,
                   currentPage, rotation, scale, loading, showError, loads,
                   timers, renders, container, latest>>

\* ------------------------------------------------------------- upload route
\* strings are sequences of characters
UpperCase == <<"A", "B", "C", "D", "E", "F", "G", "H", "I", "J", "K", "L", "M", "N", "O", "P", "Q", "R", "S", "T", "U", "V", "W", "X", "Y", "Z">>

LowerCase == <<"a", "b", "c", "d", "e", "f", "g", "h", "i", "j", "k", "l", "m", "n", "o", "p", "q", "r", "s", "t", "u", "v", "w", "x", "y", "z">>

\* a character without its case, as the flag i of a regular expression has it
toLowerCase(c) ==
    IF \E k \in 1..Len(UpperCase) : UpperCase[k] = c
    THEN LowerCase[CHOOSE k \in 1..Len(UpperCase) : UpperCase[k] = c]
    ELSE c

\* /pdf|xml|png|jpg|jpeg|/i: its alternatives, the last of them empty
filetypes ==
    << <<"p", "d", "f">>,
       <<"x", "m", "l">>,
       <<"p", "n", "g">>,
       <<"j", "p", "g">>,
       <<"j", "p", "e", "g">>,
       << >> >>

\* w stands in s at place k, whatever the case
MatchesAt(s, w, k) ==
    /\ k + Len(w) - 1 <= Len(s)
    /\ \A j \in 1..Len(w) : toLowerCase(s[k + j - 1]) = toLowerCase(w[j])

\* RegExp.prototype.test: some alternative stands somewhere in s
test(re, s) ==
    \E n \in 1..Len(re) : \E k \in 1..(Len(s) + 1) : MatchesAt(s, re[n], k)

\* file.mimetype of the files of a request
MimeTypes ==
    { <<"a", "p", "p", "l", "i", "c", "a", "t", "i", "o", "n", "/", "p", "d", "f">>,
      <<"t", "e", "x", "t", "/", "x", "m", "l">>,
      <<"i", "m", "a", "g", "e", "/", "P", "N", "G">>,
      <<"i", "m", "a", "g", "e", "/", "j", "p", "e", "g">>,
      <<"t", "e", "x", "t", "/", "p", "l", "a", "i", "n">>,
      << >> }

fileFilterError == "Erreur : Seuls les fichiers PDF et XML sont acceptés"

\* multer calls fileFilter for the next file of the request: cb(null, true)
\* has the file stored, cb(error) ends the request with the error
fileFilter(mimetype) ==
    /\ uploadError = ""
    /\ Len(stored) < MaxFiles
    /\ IF test(filetypes, mimetype)
       THEN stored' = Append(stored, mimetype) /\ UNCHANGED uploadError
       ELSE uploadError' = fileFilterError /\ UNCHANGED stored
    /\ UNCHANGED <<fileUrl, verticesGroups, pdf, numPages, currentPage, rotation,
                   scale, loading, showError, loads, timers, renders, container,
                   latest, lastOp, verticesArray, scrolled>>

\* ------------------------------------------------------------ specification
\* what the user and the caller do
UserNext ==
    \/ \E u \in Urls : setFileUrl(u)
    \/ refreshPDF
    \/ \E g \in VGChoices : setVerticesGroups(g)
    \/ zoomIn
    \/ zoomOut
    \/ rotateLeft
    \/ rotateRight
    \/ nextPage
    \/ prevPage
    \/ \E num \in 1..MaxPages : selectPage(num)
    \/ \E at \in MousePoints : handleOverlayMouseMove(at)

\* the continuations of loadPDF
LoadNext ==
    \E i \in 1..MaxLoads :
        \/ getPdfBlobResolved(i)
        \/ getPdfBlobRejected(i)
        \/ getDocumentResolved(i)
        \/ getDocumentRejected(i)
        \/ loadingTimeout(i)

\* the continuations of renderPage
RenderNext ==
    \E i \in 1..MaxRenders :
        \/ getPageResolved(i)
        \/ getPageRejected(i)
        \/ pageRenderResolved(i)
        \/ getTextContentResolved(i)

Next == UserNext \/ LoadNext \/ RenderNext \/ updateVertices

Spec == Init /\ [][Next]_vars

\* The viewer under one kind of user activity at a time; the continuations
\* of loadPDF and renderPage and the debounce timer run in all of them.
AsyncNext == LoadNext \/ RenderNext \/ updateVertices

ZoomNext == zoomIn \/ zoomOut \/ AsyncNext

ZoomSpec == Init /\ [][ZoomNext]_vars

RotateNext ==
    \/ rotateLeft
    \/ rotateRight
    \/ \E at \in MousePoints : handleOverlayMouseMove(at)
    \/ AsyncNext

RotateSpec == Init /\ [][RotateNext]_vars

PageNext ==
    \/ nextPage
    \/ prevPage
    \/ \E num \in 1..MaxPages : selectPage(num)
    \/ \E g \in VGChoices : setVerticesGroups(g)
    \/ AsyncNext

PageSpec == Init /\ [][PageNext]_vars

LoadingNext ==
    \/ \E u \in Urls : setFileUrl(u)
    \/ refreshPDF
    \/ AsyncNext

LoadSpec == Init /\ [][LoadingNext]_vars

\* Every promise loadPDF and renderPage await settles and every timer fires.
Settling ==
    /\ \A i \in 1..MaxLoads :
          /\ WF_vars(getPdfBlobResolved(i) \/ getPdfBlobRejected(i))
          /\ WF_vars(getDocumentResolved(i) \/ getDocumentRejected(i))
          /\ WF_vars(loadingTimeout(i))
    /\ \A i \in 1..MaxRenders :
          /\ WF_vars(getPageResolved(i) \/ getPageRejected(i))
          /\ WF_vars(pageRenderResolved(i))
          /\ WF_vars(getTextContentResolved(i))
    /\ WF_vars(updateVertices)

\* mounted without annotations, or with a first group tagged "all"
LoadInit == Init /\ Len(verticesGroups) # 1

\* The loads of such a viewer, every step settling.
LoadLiveSpec == LoadInit /\ [][LoadingNext]_vars /\ Settling

\* The overlay: annotations and hover set supplied, the pointer moving, the
\* next page shown.
OverlayNext ==
    \/ \E g \in DrawChoices : setVerticesGroups(g)
    \/ \E vs \in HoverChoices : setVerticesArray(vs)
    \/ \E at \in MousePoints : handleOverlayMouseMove(at)
    \/ nextPage
    \/ AsyncNext

OverlaySpec == Init /\ [][OverlayNext]_vars

\* The upload route: the files of a request pass the filter one by one.
UploadNext == \E m \in MimeTypes : fileFilter(m)

UploadSpec == Init /\ [][UploadNext]_vars

\* ================================================================== claims
\* C1: starting from scale 1.5, after any sequence of zoomIn and zoomOut the
\* scale stays within [0.5, 5.0].
C1_ScaleWithinBounds == MIN_SCALE <= scale /\ scale <= MAX_SCALE

\* zoomIn on a loaded document has hit the upper clamp
C1_Witness == scale = MAX_SCALE /\ pdf # NoPdf /\ latest # 0

\* C2: in every reachable state currentPage is an integer in [1, numPages].
C2_PageInRange == currentPage \in 1..numPages

\* C3: with a loaded document of N >= 1 pages and currentPage in [1, N],
\* nextPage sets currentPage to min(currentPage + 1, N) and prevPage sets it
\* to max(currentPage - 1, 1).
C3_NextPrevClamp ==
    [][(pdf # NoPdf /\ numPages >= 1 /\ currentPage \in 1..numPages) =>
          /\ lastOp'.name = "nextPage" =>
                currentPage' = IF currentPage < numPages THEN currentPage + 1
                               ELSE numPages
          /\ lastOp'.name = "prevPage" =>
                currentPage' = IF currentPage > 1 THEN currentPage - 1 ELSE 1]_vars

\* nextPage called on the last page of the longest document left it there
C3_Witness ==
    /\ lastOp = Op("nextPage", MaxPages)
    /\ pdf # NoPdf
    /\ numPages = MaxPages
    /\ currentPage = MaxPages

\* C4, as stated: the rotation the controller holds is always one of
\* 0, 90, 180, 270.
C4_RotationNormalized == rotation \in {0, 90, 180, 270}

\* C4, amended: the rotation the controller holds is a multiple of 90
\* strictly between -360 and 360, and the angle normalised from it where it
\* is used is always one of 0, 90, 180, 270.
C4_RotationWithinTurn ==
    /\ rotation \in {-270, -180, -90, 0, 90, 180, 270}
    /\ normalizedAngle(rotation) \in {0, 90, 180, 270}

\* rotateLeft has left a negative rotation
C4_Witness == rotation = -270 /\ pdf # NoPdf

FourTimesLeft(r) == rotateLeftValue(rotateLeftValue(rotateLeftValue(rotateLeftValue(r))))

FourTimesRight(r) ==
    rotateRightValue(rotateRightValue(rotateRightValue(rotateRightValue(r))))

\* C5: from any reachable rotation, rotateLeft four times (and rotateRight
\* four times) gives a rotation congruent to it modulo 360, with the same
\* normalised angle.
C5_FourRotations ==
    /\ (FourTimesLeft(rotation) - rotation) % 360 = 0
    /\ (FourTimesRight(rotation) - rotation) % 360 = 0
    /\ normalizedAngle(FourTimesLeft(rotation)) = normalizedAngle(rotation)
    /\ normalizedAngle(FourTimesRight(rotation)) = normalizedAngle(rotation)

\* a rotation reached by rotateLeft from which four more turns pass through
\* zero and do not come back to the same number
C5_Witness ==
    /\ rotation = -90
    /\ pdf # NoPdf
    /\ FourTimesRight(rotation) # rotation

\* C6: every load sets loading=true when it starts and, its fetch and parse
\* settling, eventually sets loading=false; a failed fetch or parse opens the
\* error state with 'Cannot load pdf file!' and leaves pdf and numPages as
\* they are; a successful one sets numPages to the document's page count and
\* does not open the error state.
C6_LoadLifecycle ==
    /\ loading = TRUE
    /\ [][/\ ((\E u \in Urls : setFileUrl(u)) \/ refreshPDF) => loading'
          /\ (\E i \in 1..MaxLoads : getPdfBlobRejected(i) \/ getDocumentRejected(i)) =>
                /\ showError' = [open |-> TRUE, message |-> "Cannot load pdf file!"]
                /\ pdf' = pdf
                /\ numPages' = numPages
          /\ \A i \in 1..MaxLoads : getDocumentResolved(i) =>
                /\ numPages' = PagesOf(loads[i].url)
                /\ pdf'.numPages = numPages'
                /\ showError' = showError]_vars
    /\ \A i \in 1..MaxLoads :
          (loads[i].pc # "idle") ~> (loads[i].pc = "idle" /\ ~loading)

\* a load that failed after an earlier one succeeded has ended: the spinner
\* is off, the error is shown, the earlier document is still held
C6_Witness ==
    /\ \A i \in 1..MaxLoads : loads[i].pc = "idle"
    /\ ~loading
    /\ showError.open
    /\ pdf # NoPdf
    /\ numPages = pdf.numPages

\* the regions of the groups of the page shown, on an overlay of the size of
\* the page's viewport
ShownPageRegions ==
    drawVertices(Viewport(scale, rotation).w, Viewport(scale, rotation).h,
                 verticesGroups, rotation, "", currentPage)

\* C7: a new verticesGroups set switches currentPage to its first group's
\* page + 1 (1 when empty) and, once the debounce timer and the page render
\* started by the switch have both completed, in any order, the overlay shown
\* has the regions of the groups of that page.
C7_SwitchThenHighlight ==
    (/\ latest # 0
     /\ renders[latest].cause = "verticesGroups"
     /\ renders[latest].pc = "done"
     /\ timers = << >>)
    => /\ currentPage = TargetPage(verticesGroups)
       /\ renders[latest].overlay = ShownPageRegions

\* C8: the re-render a change of currentPage, scale or rotation starts on a
\* loaded document produces the page bitmap, the text layer and the overlay:
\* when it completes, no annotation update pending, the groups of the page
\* shown are on the new overlay.
C8_RerenderDrawsOverlay ==
    (/\ latest # 0
     /\ renders[latest].pc = "done"
     /\ renders[latest].cause = "control"
     /\ timers = << >>)
    => /\ renders[latest].bitmap = currentPage
       /\ renders[latest].text
       /\ renders[latest].overlay = ShownPageRegions

\* a continuation of a renderPage call that is not the latest
StaleRenderStep ==
    \E i \in 1..MaxRenders :
        /\ i # latest
        /\ \/ getPageResolved(i)
           \/ getPageRejected(i)
           \/ pageRenderResolved(i)
           \/ getTextContentResolved(i)

\* C9: whatever the order in which the steps of several renderPage calls
\* complete, the container holds exactly the page element of the latest call,
\* and a step of an earlier call changes neither the container nor that
\* element.
C9_OnlyLatestRenderShown ==
    /\ [](container = IF latest = 0 THEN << >> ELSE << latest >>)
    /\ [][StaleRenderStep =>
             /\ container' = container
             /\ latest' = latest
             /\ latest # 0 => renders'[latest] = renders[latest]]_vars

\* the latest renderPage call has completed while an earlier one is still at
\* its last await
C9_Witness ==
    /\ latest # 0
    /\ container = << latest >>
    /\ renders[latest].pc = "done"
    /\ \E i \in 1..MaxRenders : i # latest /\ renders[i].pc = "getTextContent"

GridPoints == {Pt(a, b) : a \in 0..Grid, b \in 0..Grid}

\* the size of the overlay canvas shown, of a canvas as created when the
\* container is empty
OverlaySize ==
    IF OverlayCanvas # 0
    THEN [w |-> renders[OverlayCanvas].w, h |-> renders[OverlayCanvas].h]
    ELSE [w |-> DefaultCanvasW, h |-> DefaultCanvasH]

\* C10: at every rotation reached, a normalised point of the grid mapped to
\* overlay pixels by the switch of drawVertices and back by the switch of
\* handleOverlayMouseMove, the overlay's rectangle having the size of the
\* canvas, is the point itself.
C10_RoundTrip ==
    \A p \in GridPoints :
        normalizedPoint(adjusted(p, OverlaySize.w, OverlaySize.h, rotation),
                        OverlaySize.w, OverlaySize.h, rotation) = p

\* the pointer has found a group on a page shown on its side, turned left
C10_Witness ==
    /\ OverlayCanvas # 0
    /\ renders[OverlayCanvas].rot = -90
    /\ renders[OverlayCanvas].pc = "done"
    /\ Len(renders[OverlayCanvas].overlay) > 0
    /\ renders[OverlayCanvas].overlay[1].label # ""

\* a group is tagged "all" or with the index of page
OnPage(g, page) ==
    \/ g.page = "all"
    \/ /\ g.page \in {"0", "1", "2", "3", "4", "5"}
       /\ page # NaN
       /\ parseInt(g.page) = page - 1

KeysOnPage(groups, page) ==
    {groups[j].key : j \in {k \in 1..Len(groups) : OnPage(groups[k], page)}}

RegionKeys(ov) == {ov[k].key : k \in 1..Len(ov)}

\* C11: each drawVertices call, of the debounce timer or of a pointer move,
\* leaves on the overlay exactly one region for each supplied group tagged
\* "all" or with the index of the page it is called for, whatever the
\* overlay showed before; a group of another page is never drawn.
C11_DrawsExactlyPageGroups ==
    [][/\ (updateVertices /\ OverlayCanvas # 0) =>
            LET ov == renders'[OverlayCanvas].overlay
                keys == KeysOnPage(Head(timers).groups, Head(timers).page)
            IN  RegionKeys(ov) = keys /\ Len(ov) = Cardinality(keys)
       /\ \A at \in MousePoints :
            (handleOverlayMouseMove(at) /\ renders' # renders) =>
                LET el == renders[OverlayCanvas]
                    ov == renders'[OverlayCanvas].overlay
                IN  /\ RegionKeys(ov) \subseteq KeysOnPage(el.hover, el.page)
                    /\ Len(ov) = Cardinality(RegionKeys(ov))]_vars

\* the timer has drawn the group tagged "all" of a set of two and left out
\* the one of another page
C11_Witness ==
    /\ OverlayCanvas # 0
    /\ timers = << >>
    /\ Len(verticesGroups) = 2
    /\ Len(renders[OverlayCanvas].overlay) = 1
    /\ renders[OverlayCanvas].overlay[1].key = "B"
    /\ renders[OverlayCanvas].overlay[1].label = ""

\* C12: a drawVertices call that draws exactly one group with scrollToView
\* set leaves the viewport scrolling to that group's first transformed
\* vertex less the margin, each coordinate floored at 0; a call that draws
\* more than one group, or has scrollToView unset, requests no scroll.
C12_ScrollToFirstVertex ==
    [][/\ (updateVertices /\ OverlayCanvas # 0) =>
            LET el == renders[OverlayCanvas]
                t == Head(timers)
                on == SelectSeq(t.groups, LAMBDA g : OnPage(g, t.page))
                first == adjusted(on[1].vertices[1], el.w, el.h, t.rot)
            IN  IF Len(on) = 1
                THEN /\ scrolled' # << >>
                     /\ scrolled'[Len(scrolled')] =
                            [left |-> IF first.x > margin THEN first.x - margin ELSE 0,
                             top  |-> IF first.y > margin THEN first.y - margin ELSE 0]
                ELSE Len(on) > 1 => scrolled' = << >>
       /\ \A at \in MousePoints :
            (handleOverlayMouseMove(at) /\ renders' # renders) => scrolled' = << >>]_vars

\* the loadPDF invocations a step starts
Started == {i \in 1..MaxLoads : loads[i].pc = "idle" /\ loads'[i].pc # "idle"}

\* C13: a load is started only by Reload or by a change of the document
\* URL, never by a failure or any other step; Reload closes the error
\* panel, sets loading and starts exactly one load, of the current URL.
C13_NoAutomaticRetry ==
    [][/\ Started # {} => (refreshPDF \/ \E u \in Urls : setFileUrl(u))
       /\ refreshPDF =>
            /\ showError' = defaultErrorValue
            /\ loading'
            /\ Cardinality(Started) = 1
            /\ \A i \in Started : loads'[i].url = fileUrl
            /\ \A i \in 1..MaxLoads \ Started : loads'[i] = loads[i]]_vars

\* Reload has just been pressed on the error panel of a failed load
C13_Witness ==
    /\ lastOp.name = "refreshPDF"
    /\ fileUrl # ""
    /\ ~showError.open
    /\ loading
    /\ \E i \in 1..MaxLoads : loads[i] = [pc |-> "getPdfBlob", url |-> fileUrl]

\* C14: a pointer move normalises the pointer for the current rotation and
\* tests it against every group of the hover set; when a group contains it
\* the overlay is redrawn with exactly the containing groups of the current
\* page, labelled with the key of the first containing group, and no scroll
\* is requested; when none does, or the hover set is empty, the overlay
\* stays as it is.
C14_HoverRedraw ==
    [][\A at \in MousePoints :
          handleOverlayMouseMove(at) =>
              LET el == renders[OverlayCanvas]
                  point == normalizedPoint(Pt(at.x * el.w, at.y * el.h), el.w, el.h,
                                           rotation)
                  hits == SelectSeq(verticesArray,
                                    LAMBDA g : isPointInPolygon(point, g.vertices))
                  ov == renders'[OverlayCanvas].overlay
              IN  IF Len(hits) > 0
                  THEN /\ RegionKeys(ov) = KeysOnPage(hits, currentPage)
                       /\ Len(ov) = Cardinality(RegionKeys(ov))
                       /\ \A k \in 1..Len(ov) : ov[k].label = hits[1].key
                       /\ scrolled' = << >>
                  ELSE renders' = renders /\ scrolled' = scrolled]_vars

\* a MIME type names one of the accepted kinds, whatever the case
NamesKind(m) ==
    \E w \in {<<"p", "d", "f">>, <<"x", "m", "l">>, <<"p", "n", "g">>,
              <<"j", "p", "g">>, <<"j", "p", "e", "g">>} :
        \E k \in 1..Len(m) : MatchesAt(m, w, k)

\* C15: the file filter accepts a file only if its MIME type contains pdf,
\* xml, png, jpg or jpeg, whatever the case; every other MIME type, the
\* empty one included, is rejected with the error message.
C15_FilterRejectsOtherTypes ==
    [][\A m \in MimeTypes :
          fileFilter(m) =>
              IF NamesKind(m)
              THEN stored' = Append(stored, m) /\ uploadError' = ""
              ELSE stored' = stored /\ uploadError' = fileFilterError]_vars

\* C16: the document URL having changed while a load was in flight, the
\* document and page count held in the end are those of the URL requested
\* last: the load of an earlier URL that resolves while the document of the
\* current URL is held leaves pdf and numPages as they are.
C16_LatestUrlWins ==
    [][\A i \in 1..MaxLoads :
          (/\ getDocumentResolved(i)
           /\ loads[i].url # fileUrl
           /\ pdf # NoPdf
           /\ pdf.url = fileUrl) =>
              pdf' = pdf /\ numPages' = numPages]_vars

\* C17: once a load has completed successfully, no other load being in
\* flight, the error state is none, whatever an earlier failed load had
\* opened.
C17_SuccessClearsError ==
    [][\A i \in 1..MaxLoads :
          (/\ getDocumentResolved(i)
           /\ \A j \in 1..MaxLoads \ {i} : loads[j].pc \in {"idle", "timeout"}) =>
              showError' = defaultErrorValue]_vars

\* C18: loading is true whenever a load is in flight, its fetch or its
\* parse pending.
C18_LoadingWhileInFlight ==
    (\E i \in 1..MaxLoads : loads[i].pc \in {"getPdfBlob", "getDocument"}) => loading

====
